---- MODULE Spec2Model ----
(***************************************************************************)
(* Model of CodeReviewBench: the GitHub pull-request collector             *)
(* (simple_collector.py) and the statistics pass of the analyzer           *)
(* (analyze_data.py).                                                      *)
(***************************************************************************)
EXTENDS Integers, Sequences, FiniteSets, TLC

VARIABLES
    pc,               \* position of main / collect_from_repo
    repos_tried,      \* main: repos_tried
    all_data,         \* main: all_data
    max_prs,          \* collect_from_repo: parameter max_prs
    pulls,            \* collect_from_repo: the lazy sequence `pulls`, what is left of it
    collected_prs,    \* collect_from_repo: collected_prs
    processed,        \* collect_from_repo: processed
    skipped_reasons,  \* collect_from_repo: skipped_reasons
    extractions,      \* collect_from_repo: calls of extract_pr_data made by this scan
    sleeps,           \* collect_from_repo: calls of time.sleep(0.2) made by this scan
    returned,         \* value returned by the last collect_from_repo call
    scan_failed,      \* whether that call ended in one of its except clauses
    corpus_file,      \* data/collected_prs.json
    console,          \* the final block main printed
    pr,               \* the pull request under evaluation
    verdict,          \* result of is_suitable_pr(pr)
    pr_data,          \* result of extract_pr_data(pr, ...)
    data,             \* generate_statistics: argument data
    stats,            \* generate_statistics: stats
    stat_i,           \* generate_statistics: position of `for pr in data`
    load_status,      \* load_data: which of its branches ran
    outputs,          \* the files the analyzer has written
    report            \* create_text_report: the distribution statistics of the report

vars == <<pc, repos_tried, all_data, max_prs, pulls, collected_prs, processed,
          skipped_reasons, extractions, sleeps, returned, scan_failed, corpus_file, console, pr, verdict,
          pr_data, data, stats, stat_i, load_status, outputs, report>>

----------------------------------------------------------------------------
(* Bounds of the model *)

\* clock resolution: ticks per day
TicksPerDay == 2
\* length of the longest pull-request listing a repository returns
MaxPulls == 101
\* length of the longest data array given to generate_statistics
MaxData == 3

----------------------------------------------------------------------------
(* Program constants *)

MinChanges == 10
MaxChanges == 2000
MaxAgeDays == 1095
MinBodyLen == 10
MaxInline == 30
ExamineLimit == 100
MaxPerRepo == 10
EnoughPrs == 35

repositories ==
    << [owner |-> "fastapi",   repo |-> "fastapi"],
       [owner |-> "pallets",   repo |-> "flask"],
       [owner |-> "django",    repo |-> "django"],
       [owner |-> "microsoft", repo |-> "playwright-python"],
       [owner |-> "tiangolo",  repo |-> "sqlmodel"] >>

\* f"{owner}/{repo_name}"
FullName(owner, repo_name) == owner \o "/" \o repo_name

\* datetime.now(), in ticks
Now == 2000 * TicksPerDay

----------------------------------------------------------------------------
(* Helpers for Python values *)

None == [none |-> TRUE]

Min(a, b) == IF a < b THEN a ELSE b

\* s[:n]
Take(s, n) == SubSeq(s, 1, Min(n, Len(s)))

Rep(x, n) == [i \in 1..n |-> x]

RECURSIVE LStrip(_)
LStrip(s) ==
    IF s # <<>> /\ Head(s) = " " THEN LStrip(Tail(s)) ELSE s

RECURSIVE RStrip(_)
RStrip(s) ==
    IF s # <<>> /\ s[Len(s)] = " " THEN RStrip(SubSeq(s, 1, Len(s) - 1)) ELSE s

\* str.strip()
Strip(s) == RStrip(LStrip(s))

\* the naive wall-clock value compared with the cutoff
Naive(created_at) == created_at.wall

----------------------------------------------------------------------------
(* SimpleGitHubCollector.is_suitable_pr *)

\* is_suitable_pr with the size check ahead of the merged check
is_suitable_pr_size_first(p) ==
    IF p.fault \in {"merged", "size"} THEN <<FALSE, "error">>
    ELSE LET total_changes == p.additions + p.deletions IN
         IF total_changes < MinChanges THEN <<FALSE, "too_small">>
         ELSE IF total_changes > MaxChanges THEN <<FALSE, "too_large">>
         ELSE IF ~p.merged THEN <<FALSE, "not_merged">>
         ELSE IF p.fault = "date" THEN <<FALSE, "error">>
         ELSE IF Naive(p.created_at) < Now - MaxAgeDays * TicksPerDay
              THEN <<FALSE, "too_old">>
              ELSE <<TRUE, "suitable">>

\* is_suitable_pr with <= in place of < in the size and date comparisons
is_suitable_pr_exclusive(p) ==
    IF p.fault = "merged" THEN <<FALSE, "error">>
    ELSE IF ~p.merged THEN <<FALSE, "not_merged">>
    ELSE IF p.fault = "size" THEN <<FALSE, "error">>
    ELSE LET total_changes == p.additions + p.deletions IN
         IF total_changes <= MinChanges THEN <<FALSE, "too_small">>
         ELSE IF total_changes > MaxChanges THEN <<FALSE, "too_large">>
         ELSE IF p.fault = "date" THEN <<FALSE, "error">>
         ELSE IF Naive(p.created_at) <= Now - MaxAgeDays * TicksPerDay
              THEN <<FALSE, "too_old">>
              ELSE <<TRUE, "suitable">>

\* is_suitable_pr(pr): <<bool, reason>>; pr.fault names the attribute whose
\* access raises ("none" when no access does)
is_suitable_pr(p) ==
    IF p.fault = "merged" THEN <<FALSE, "error">>
    ELSE IF ~p.merged THEN <<FALSE, "not_merged">>
    ELSE IF p.fault = "size" THEN <<FALSE, "error">>
    ELSE LET total_changes == p.additions + p.deletions IN
         IF total_changes < MinChanges THEN <<FALSE, "too_small">>
         ELSE IF total_changes > MaxChanges THEN <<FALSE, "too_large">>
         ELSE IF p.fault = "date" THEN <<FALSE, "error">>
         ELSE LET cutoff_date == Now - MaxAgeDays * TicksPerDay
                  pr_date == Naive(p.created_at) IN
              IF pr_date < cutoff_date THEN <<FALSE, "too_old">>
              ELSE <<TRUE, "suitable">>

----------------------------------------------------------------------------
(* SimpleGitHubCollector.extract_pr_data *)

\* comment.line or 0
LineOrZero(line) == IF line.isNone \/ line.val = 0 THEN 0 ELSE line.val

InlineRecord(comment) ==
    [reviewer    |-> comment.user,
     timestamp   |-> comment.created_at,
     file        |-> comment.path,
     line_number |-> LineOrZero(comment.line),
     content     |-> comment.body,
     type        |-> "inline"]

GeneralRecord(review) ==
    [reviewer  |-> review.user,
     timestamp |-> IF review.submitted THEN "submitted_at" ELSE "",
     content   |-> review.body.text,
     state     |-> review.state,
     type      |-> "general"]

\* line 198 without strip()
HasTextUntrimmed(review) ==
    /\ ~review.body.isNone
    /\ review.body.text # <<>>
    /\ Len(review.body.text) > MinBodyLen

\* review.body and len(review.body.strip()) > 10
HasText(review) ==
    /\ ~review.body.isNone
    /\ review.body.text # <<>>
    /\ Len(Strip(review.body.text)) > MinBodyLen

\* the loop `for comment in inline_comments`: the records appended to
\* human_reviews up to the first comment whose conversion raises
RECURSIVE AppendInline(_)
AppendInline(comments) ==
    IF comments = <<>> THEN <<>>
    ELSE IF ~Head(comments).ok THEN <<>>
    ELSE <<InlineRecord(Head(comments))>> \o AppendInline(Tail(comments))

\* line 179 without the slice [:30]
InlinePhaseUnbounded(p) ==
    IF p.review_comments.raises THEN <<>>
    ELSE AppendInline(p.review_comments.items)

\* the first try block: the inline records human_reviews holds after it
InlinePhase(p) ==
    IF p.review_comments.raises THEN <<>>
    ELSE AppendInline(Take(p.review_comments.items, MaxInline))

\* the loop `for review in reviews`, up to the first accepted review whose
\* conversion raises
RECURSIVE AppendGeneral(_)
AppendGeneral(reviews) ==
    IF reviews = <<>> THEN <<>>
    ELSE IF ~HasText(Head(reviews)) THEN AppendGeneral(Tail(reviews))
    ELSE IF ~Head(reviews).ok THEN <<>>
    ELSE <<GeneralRecord(Head(reviews))>> \o AppendGeneral(Tail(reviews))

\* the general phase inside the try block of the inline phase: skipped
\* when the inline phase raised
GeneralPhaseSameTry(p) ==
    IF \/ p.review_comments.raises
       \/ \E i \in 1..Min(Len(p.review_comments.items), MaxInline) :
             ~p.review_comments.items[i].ok
    THEN <<>>
    ELSE IF p.reviews.raises THEN <<>>
    ELSE AppendGeneral(p.reviews.items)

\* the second try block: the general records appended by it
GeneralPhase(p) ==
    IF p.reviews.raises THEN <<>>
    ELSE AppendGeneral(p.reviews.items)

\* extract_pr_data(pr, owner, repo_name): the record, or None when building
\* the record's header raises
extract_pr_data(p, owner, repo_name) ==
    IF p.fault \in {"header", "size", "date"} THEN None
    ELSE LET human_reviews == InlinePhase(p) \o GeneralPhase(p) IN
         [pr_id         |-> <<FullName(owner, repo_name), p.number>>,
          repository    |-> FullName(owner, repo_name),
          pr_number     |-> p.number,
          human_reviews |-> human_reviews,
          metadata      |-> [loc_added           |-> p.additions,
                             loc_deleted         |-> p.deletions,
                             num_review_comments |-> Len(human_reviews)]]

----------------------------------------------------------------------------
(* Pull requests, review comments and reviews the API can return *)

\* a body of `core` letters between `lead` and `trail` blanks
Body(lead, core, trail) ==
    [isNone |-> FALSE, text |-> Rep(" ", lead) \o Rep("x", core) \o Rep(" ", trail)]

Comment(ok, line) ==
    [ok |-> ok, user |-> "alice", created_at |-> "created_at",
     path |-> "app.py", line |-> line, body |-> <<"o", "k">>]

Review(ok, body, state, submitted) ==
    [ok |-> ok, user |-> "bob", body |-> body, state |-> state,
     submitted |-> submitted]

NoFetch == [raises |-> TRUE, items |-> <<>>]
Fetched(items) == [raises |-> FALSE, items |-> items]

CutoffWall == Now - MaxAgeDays * TicksPerDay

Pull(fault, merged, additions, deletions, wall, aware, comments, reviews) ==
    [number |-> 1, fault |-> fault, merged |-> merged,
     additions |-> additions, deletions |-> deletions,
     created_at |-> [wall |-> wall, aware |-> aware],
     review_comments |-> comments, reviews |-> reviews]

GoodComment == Comment(TRUE, [isNone |-> FALSE, val |-> 7])
LongReview == Review(TRUE, Body(0, MinBodyLen + 1, 0), "APPROVED", TRUE)

\* the pull requests the listings of the collector run are made of
PrGood      == Pull("none", TRUE, 30, 20, Now - TicksPerDay, TRUE,
                    Fetched(<<GoodComment>>), Fetched(<<>>))
PrGeneral   == Pull("none", TRUE, 30, 20, Now - TicksPerDay, TRUE,
                    Fetched(<<>>), Fetched(<<LongReview>>))
PrNoReviews == Pull("none", TRUE, 30, 20, Now - TicksPerDay, TRUE,
                    Fetched(<<>>), Fetched(<<>>))
PrBroken    == Pull("header", TRUE, 30, 20, Now - TicksPerDay, TRUE,
                    Fetched(<<GoodComment>>), Fetched(<<>>))
PrUnmerged  == Pull("none", FALSE, 30, 20, Now - TicksPerDay, TRUE,
                    Fetched(<<GoodComment>>), Fetched(<<>>))
PrSmall     == Pull("none", TRUE, 4, 5, Now - TicksPerDay, TRUE,
                    Fetched(<<GoodComment>>), Fetched(<<>>))
PrLarge     == Pull("none", TRUE, 1001, 1000, Now - TicksPerDay, TRUE,
                    Fetched(<<GoodComment>>), Fetched(<<>>))
PrOld       == Pull("none", TRUE, 30, 20, CutoffWall - 1, TRUE,
                    Fetched(<<GoodComment>>), Fetched(<<>>))
PrFaulty    == Pull("merged", TRUE, 30, 20, Now - TicksPerDay, TRUE,
                    Fetched(<<GoodComment>>), Fetched(<<>>))

PrKinds == {PrGood, PrGeneral, PrNoReviews, PrBroken, PrUnmerged, PrSmall,
            PrLarge, PrOld, PrFaulty}

\* a listing: the pull requests it yields, numbered in order, and whether
\* the iteration raises an API error once they are consumed
Listing(prs, error) ==
    [prs   |-> [i \in 1..Len(prs) |-> [prs[i] EXCEPT !.number = i]],
     error |-> error]

----------------------------------------------------------------------------
(* Values of the variables an operation has not set yet *)

NoPr == Pull("none", FALSE, 0, 0, 0, FALSE, NoFetch, NoFetch)
NoVerdict == <<FALSE, "unset">>
NoListing == [prs |-> <<>>, error |-> FALSE]
NoFile == [exists |-> FALSE, content |-> <<>>]
NoStats == [total_prs |-> 0]
NoReport == [written |-> FALSE]

Reasons == {"not_merged", "no_reviews", "too_large", "too_old", "too_small", "error"}

----------------------------------------------------------------------------
(* SimpleGitHubCollector.collect_from_repo *)

owner == repositories[repos_tried].owner
repo_name == repositories[repos_tried].repo

prVars == <<pr, verdict, pr_data>>
scanVars == <<pulls, collected_prs, processed, skipped_reasons, extractions, sleeps>>
mainVars == <<repos_tried, all_data, max_prs, corpus_file, console>>
statVars == <<data, stats, stat_i, load_status, outputs, report>>
anaVars == <<load_status, outputs, report>>
retVars == <<returned, scan_failed>>

\* except clauses that return what was collected so far
OnApiErrorKeep(collected) == collected

\* lines 115-120: what the except clauses return
OnApiError(collected) == <<>>

\* line 88 without the length test
AcceptedAnyRecord(d) == d # None

\* line 88: pr_data and len(pr_data['human_reviews']) > 0
Accepted(d) == d # None /\ Len(d.human_reviews) > 0

\* get_repo or get_pulls raises: the except clauses return []
GetRepoFails ==
    /\ pc = "get_repo"
    /\ returned' = OnApiError(<<>>)
    /\ scan_failed' = TRUE
    /\ pc' = "returned"
    /\ UNCHANGED <<mainVars, scanVars, prVars, statVars>>

\* lines 46-64: the repository resolves, `pulls` is the listing the API
\* will yield, the scan's locals are initialised
GetRepo(listings) ==
    /\ pc = "get_repo"
    /\ \E l \in listings : pulls' = l
    /\ collected_prs' = <<>>
    /\ processed' = 0
    /\ skipped_reasons' = [r \in Reasons |-> 0]
    /\ extractions' = 0
    /\ sleeps' = 0
    /\ pc' = "for_pr"
    /\ UNCHANGED <<mainVars, retVars, prVars, statVars>>

\* the iteration over `pulls` raises an API error: the except clauses return []
FetchFails ==
    /\ pc = "for_pr"
    /\ pulls.prs = <<>>
    /\ pulls.error
    /\ returned' = OnApiError(collected_prs)
    /\ scan_failed' = TRUE
    /\ pc' = "returned"
    /\ UNCHANGED <<mainVars, scanVars, prVars, statVars>>

\* `pulls` is exhausted: the loop ends and collected_prs is returned
Exhausted ==
    /\ pc = "for_pr"
    /\ pulls.prs = <<>>
    /\ ~pulls.error
    /\ returned' = collected_prs
    /\ scan_failed' = FALSE
    /\ pc' = "returned"
    /\ UNCHANGED <<mainVars, scanVars, prVars, statVars>>

\* lines 69-70: the next pull request is fetched but max_prs are collected
BreakFull ==
    /\ pc = "for_pr"
    /\ pulls.prs # <<>>
    /\ Len(collected_prs) >= max_prs
    /\ pulls' = [pulls EXCEPT !.prs = Tail(@)]
    /\ returned' = collected_prs
    /\ scan_failed' = FALSE
    /\ pc' = "returned"
    /\ UNCHANGED <<mainVars, collected_prs, processed, skipped_reasons,
                   extractions, sleeps, prVars, statVars>>

\* lines 72-84 with the delay of line 97 moved before the `continue`
RejectUnsuitableSleeps ==
    /\ pc = "for_pr"
    /\ pulls.prs # <<>>
    /\ Len(collected_prs) < max_prs
    /\ LET p == Head(pulls.prs)
           v == is_suitable_pr(p) IN
       /\ ~v[1]
       /\ pr' = p
       /\ verdict' = v
       /\ skipped_reasons' = [skipped_reasons EXCEPT ![v[2]] = @ + 1]
    /\ processed' = processed + 1
    /\ sleeps' = sleeps + 1
    /\ pulls' = [pulls EXCEPT !.prs = Tail(@)]
    /\ UNCHANGED <<pc, mainVars, collected_prs, extractions, retVars,
                   pr_data, statVars>>

\* lines 72-84: an iteration whose pull request the filter rejects
RejectUnsuitable ==
    /\ pc = "for_pr"
    /\ pulls.prs # <<>>
    /\ Len(collected_prs) < max_prs
    /\ LET p == Head(pulls.prs)
           v == is_suitable_pr(p) IN
       /\ ~v[1]
       /\ pr' = p
       /\ verdict' = v
       /\ skipped_reasons' = [skipped_reasons EXCEPT ![v[2]] = @ + 1]
    /\ processed' = processed + 1
    /\ pulls' = [pulls EXCEPT !.prs = Tail(@)]
    /\ UNCHANGED <<pc, mainVars, collected_prs, extractions, sleeps, retVars,
                   pr_data, statVars>>

\* lines 72-102 with a null record skipped without being tallied
EvaluateSuitableNullUncounted ==
    /\ pc = "for_pr"
    /\ pulls.prs # <<>>
    /\ Len(collected_prs) < max_prs
    /\ LET p == Head(pulls.prs)
           v == is_suitable_pr(p)
           d == extract_pr_data(p, owner, repo_name)
           accepted == Accepted(d)
           collected == IF accepted THEN Append(collected_prs, d)
                        ELSE collected_prs IN
       /\ v[1]
       /\ pr' = p
       /\ verdict' = v
       /\ pr_data' = d
       /\ collected_prs' = collected
       /\ skipped_reasons' =
              IF accepted \/ d = None THEN skipped_reasons
              ELSE [skipped_reasons EXCEPT !["no_reviews"] = @ + 1]
       /\ IF processed + 1 >= ExamineLimit
          THEN returned' = collected /\ scan_failed' = FALSE /\ pc' = "returned"
          ELSE UNCHANGED <<returned, scan_failed, pc>>
    /\ processed' = processed + 1
    /\ extractions' = extractions + 1
    /\ sleeps' = sleeps + 1
    /\ pulls' = [pulls EXCEPT !.prs = Tail(@)]
    /\ UNCHANGED <<mainVars, statVars>>

\* lines 72-102: an iteration whose pull request passes the filter
EvaluateSuitable ==
    /\ pc = "for_pr"
    /\ pulls.prs # <<>>
    /\ Len(collected_prs) < max_prs
    /\ LET p == Head(pulls.prs)
           v == is_suitable_pr(p)
           d == extract_pr_data(p, owner, repo_name)
           accepted == Accepted(d)
           collected == IF accepted THEN Append(collected_prs, d)
                        ELSE collected_prs IN
       /\ v[1]
       /\ pr' = p
       /\ verdict' = v
       /\ pr_data' = d
       /\ collected_prs' = collected
       /\ skipped_reasons' =
              IF accepted THEN skipped_reasons
              ELSE [skipped_reasons EXCEPT !["no_reviews"] = @ + 1]
       /\ IF processed + 1 >= ExamineLimit
          THEN returned' = collected /\ scan_failed' = FALSE /\ pc' = "returned"
          ELSE UNCHANGED <<returned, scan_failed, pc>>
    /\ processed' = processed + 1
    /\ extractions' = extractions + 1
    /\ sleeps' = sleeps + 1
    /\ pulls' = [pulls EXCEPT !.prs = Tail(@)]
    /\ UNCHANGED <<mainVars, statVars>>

----------------------------------------------------------------------------
(* main of simple_collector.py *)

\* lines 250-258: the next repository of the list is taken and scanned
NextRepo ==
    /\ pc = "main_for"
    /\ repos_tried < Len(repositories)
    /\ repos_tried' = repos_tried + 1
    /\ max_prs' = MaxPerRepo
    /\ pc' = "get_repo"
    /\ UNCHANGED <<all_data, corpus_file, console, scanVars, retVars,
                   prVars, statVars>>

\* the list of repositories is exhausted
ReposDone ==
    /\ pc = "main_for"
    /\ repos_tried = Len(repositories)
    /\ pc' = "save"
    /\ UNCHANGED <<mainVars, scanVars, retVars, prVars, statVars>>

\* line 264 with > in place of >=
EnoughExclusive(n) == n > EnoughPrs

\* line 264: len(all_data) >= 35
Enough(n) == n >= EnoughPrs

\* lines 260-266: all_data.extend(prs) and the early stop
Accumulate ==
    /\ pc = "returned"
    /\ all_data' = all_data \o returned
    /\ pc' = IF Enough(Len(all_data')) THEN "save" ELSE "main_for"
    /\ UNCHANGED <<repos_tried, max_prs, corpus_file, console, scanVars,
                   retVars, prVars, statVars>>

\* Save with `if all_data is not None` in place of `if all_data`
SaveUnlessNone ==
    /\ pc = "save"
    /\ corpus_file' = [exists |-> TRUE, content |-> all_data]
    /\ console' = "success"
    /\ pc' = "done"
    /\ UNCHANGED <<repos_tried, all_data, max_prs, scanVars, returned,
                   scan_failed, prVars, statVars>>

\* lines 269-316: the corpus is written and the statistics printed, or the
\* troubleshooting block is printed
Save ==
    /\ pc = "save"
    /\ IF all_data # <<>>
       THEN /\ corpus_file' = [exists |-> TRUE, content |-> all_data]
            /\ console' = "success"
       ELSE /\ corpus_file' = corpus_file
            /\ console' = "no_data"
    /\ pc' = "done"
    /\ UNCHANGED <<repos_tried, all_data, max_prs, scanVars, retVars,
                   prVars, statVars>>

\* the listings of the collector run
MainListings ==
    {Listing(Rep(PrGood, n), e) : n \in {0, 1, 5, MaxPerRepo + 1}, e \in BOOLEAN}
    \cup {Listing(<<PrUnmerged, PrGeneral, PrNoReviews, PrBroken>>, FALSE),
          Listing(Rep(PrNoReviews, MaxPulls), FALSE),
          Listing(Rep(PrUnmerged, MaxPulls), FALSE)}

Init ==
    /\ pc = "main_for"
    /\ repos_tried = 0
    /\ all_data = <<>>
    /\ max_prs = 0
    /\ pulls = NoListing
    /\ collected_prs = <<>>
    /\ processed = 0
    /\ skipped_reasons = [r \in Reasons |-> 0]
    /\ extractions = 0
    /\ sleeps = 0
    /\ returned = <<>>
    /\ scan_failed = FALSE
    /\ corpus_file = NoFile
    /\ console = "none"
    /\ pr = NoPr
    /\ verdict = NoVerdict
    /\ pr_data = None
    /\ data = <<>>
    /\ stats = NoStats
    /\ stat_i = 0
    /\ load_status = "none"
    /\ outputs = {}
    /\ report = NoReport

Next ==
    \/ NextRepo
    \/ ReposDone
    \/ GetRepoFails
    \/ GetRepo(MainListings)
    \/ FetchFails
    \/ Exhausted
    \/ BreakFull
    \/ RejectUnsuitable
    \/ EvaluateSuitable
    \/ Accumulate
    \/ Save

Spec == Init /\ [][Next]_vars

\* the run is sequential: the statement at hand is eventually executed
LiveSpec == Spec /\ WF_vars(Next)

----------------------------------------------------------------------------
(* One call of collect_from_repo, on any listing *)

DefaultMaxPrs == 15

RunLengths == {<<0, 0>>, <<1, 1>>, <<2, MaxPerRepo + 1>>,
               <<ExamineLimit - 1, 2>>, <<MaxPulls, 0>>}

\* pull requests that fail more than one check of the filter
PrUnmergedSmallOld == Pull("none", FALSE, 4, 5, CutoffWall - 1, TRUE,
                           Fetched(<<GoodComment>>), Fetched(<<>>))
PrSmallOld         == Pull("none", TRUE, 4, 5, CutoffWall - 1, TRUE,
                           Fetched(<<GoodComment>>), Fetched(<<>>))

\* a listing in which every kind of pull request occurs
MixedPulls == <<PrUnmerged, PrGood, PrSmall, PrNoReviews, PrLarge, PrBroken,
                PrOld, PrFaulty, PrGeneral, PrUnmergedSmallOld, PrSmallOld>>

ScanListings ==
    {Listing(Rep(a, nm[1]) \o Rep(b, nm[2]), e) :
        a \in PrKinds, b \in PrKinds, nm \in RunLengths, e \in BOOLEAN}
    \cup {Listing(MixedPulls, e) : e \in BOOLEAN}

InitScan ==
    /\ pc = "get_repo"
    /\ repos_tried \in {1, Len(repositories)}
    /\ all_data = <<>>
    /\ max_prs \in {1, MaxPerRepo, DefaultMaxPrs}
    /\ pulls = NoListing
    /\ collected_prs = <<>>
    /\ processed = 0
    /\ skipped_reasons = [r \in Reasons |-> 0]
    /\ extractions = 0
    /\ sleeps = 0
    /\ returned = <<>>
    /\ scan_failed = FALSE
    /\ corpus_file = NoFile
    /\ console = "none"
    /\ pr = NoPr
    /\ verdict = NoVerdict
    /\ pr_data = None
    /\ data = <<>>
    /\ stats = NoStats
    /\ stat_i = 0
    /\ load_status = "none"
    /\ outputs = {}
    /\ report = NoReport

NextScan ==
    \/ GetRepoFails
    \/ GetRepo(ScanListings)
    \/ FetchFails
    \/ Exhausted
    \/ BreakFull
    \/ RejectUnsuitable
    \/ EvaluateSuitable

SpecScan == InitScan /\ [][NextScan]_vars

----------------------------------------------------------------------------
(* is_suitable_pr and extract_pr_data on any pull request *)

Faults == {"none", "merged", "size", "date", "header"}

Sizes == {<<4, 5>>, <<5, 5>>, <<0, 10>>, <<1000, 1000>>, <<1001, 1000>>}

Walls == {CutoffWall - TicksPerDay, CutoffWall - 1, CutoffWall,
          CutoffWall + 1, Now}

FilterInputs ==
    {Pull(f, m, sz[1], sz[2], w, a, Fetched(<<GoodComment>>), Fetched(<<>>)) :
        f \in Faults, m \in BOOLEAN, sz \in Sizes, w \in Walls, a \in BOOLEAN}

Comments ==
    {Comment(TRUE, [isNone |-> FALSE, val |-> 7]),
     Comment(TRUE, [isNone |-> TRUE, val |-> 0]),
     Comment(FALSE, [isNone |-> FALSE, val |-> 7])}

Bodies ==
    {[isNone |-> TRUE, text |-> <<>>],
     Body(0, 0, 0),
     Body(2, 0, 0),
     Body(0, MinBodyLen, 0),
     Body(1, MinBodyLen, 1),
     Body(0, MinBodyLen + 1, 0),
     Body(1, MinBodyLen + 1, 2),
     [isNone |-> FALSE, text |-> Rep("x", 5) \o <<" ">> \o Rep("x", 5)]}

Reviews ==
    {Review(TRUE, b, "APPROVED", TRUE) : b \in Bodies}
    \cup {Review(FALSE, b, "COMMENTED", FALSE) :
             b \in {Body(0, 0, 0), Body(0, MinBodyLen + 1, 0)}}
    \cup {Review(TRUE, Body(0, MinBodyLen + 1, 0), "CHANGES_REQUESTED", FALSE)}

UpTo2(S) == {<<>>} \cup {<<x>> : x \in S} \cup {<<x, y>> : x \in S, y \in S}

CommentLists ==
    {NoFetch}
    \cup {Fetched(l) : l \in UpTo2(Comments)}
    \cup {Fetched(Rep(GoodComment, n) \o l) :
             n \in {MaxInline - 1, MaxInline},
             l \in {<<x>> : x \in Comments}}

ReviewLists == {NoFetch} \cup {Fetched(l) : l \in UpTo2(Reviews)}

ExtractInputs ==
    {Pull(f, TRUE, 30, 20, Now, TRUE, c, r) :
        f \in {"none", "header"}, c \in CommentLists, r \in ReviewLists}

PrInputs == FilterInputs \cup ExtractInputs

InitPr ==
    /\ pc = "is_suitable_pr"
    /\ pr \in PrInputs
    /\ repos_tried = 1
    /\ all_data = <<>>
    /\ max_prs = MaxPerRepo
    /\ pulls = NoListing
    /\ collected_prs = <<>>
    /\ processed = 0
    /\ skipped_reasons = [r \in Reasons |-> 0]
    /\ extractions = 0
    /\ sleeps = 0
    /\ returned = <<>>
    /\ scan_failed = FALSE
    /\ corpus_file = NoFile
    /\ console = "none"
    /\ verdict = NoVerdict
    /\ pr_data = None
    /\ data = <<>>
    /\ stats = NoStats
    /\ stat_i = 0
    /\ load_status = "none"
    /\ outputs = {}
    /\ report = NoReport

CallIsSuitablePr ==
    /\ pc = "is_suitable_pr"
    /\ verdict' = is_suitable_pr(pr)
    /\ pc' = "extract_pr_data"
    /\ UNCHANGED <<mainVars, scanVars, retVars, pr, pr_data, statVars>>

CallExtractPrData ==
    /\ pc = "extract_pr_data"
    /\ pr_data' = extract_pr_data(pr, owner, repo_name)
    /\ pc' = "pr_done"
    /\ UNCHANGED <<mainVars, scanVars, retVars, pr, verdict, statVars>>

NextPr == CallIsSuitablePr \/ CallExtractPrData

SpecPr == InitPr /\ [][NextPr]_vars

----------------------------------------------------------------------------
(* generate_statistics of analyze_data.py *)

RECURSIVE GCD(_, _)
GCD(a, b) == IF b = 0 THEN a ELSE GCD(b, a % b)

\* the value of n / d for d > 0, as a fraction in lowest terms
Quotient(n, d) ==
    LET g == GCD(n, d) IN [num |-> n \div g, den |-> d \div g]

Zero == [num |-> 0, den |-> 1]

\* lines 69-73: the increments of inline_comments over one review list
RECURSIVE CountInline(_)
CountInline(reviews) ==
    IF reviews = <<>> THEN 0
    ELSE (IF Head(reviews).type = "inline" THEN 1 ELSE 0) + CountInline(Tail(reviews))

\* lines 69-73: the increments of general_reviews over one review list
RECURSIVE CountGeneral(_)
CountGeneral(reviews) ==
    IF reviews = <<>> THEN 0
    ELSE (IF Head(reviews).type = "inline" THEN 0 ELSE 1) + CountGeneral(Tail(reviews))

\* lines 45-56
NewStats(d) ==
    [total_prs         |-> Len(d),
     total_reviews     |-> 0,
     inline_comments   |-> 0,
     general_reviews   |-> 0,
     total_loc_added   |-> 0,
     total_loc_deleted |-> 0,
     repos             |-> {},
     by_repo           |-> <<>>,
     review_counts     |-> <<>>,
     loc_counts        |-> <<>>]

\* lines 83-91 with the entry initialised on every record
ByRepoAfterReset(by_repo, repo, num_reviews, loc) ==
    [r \in DOMAIN by_repo \cup {repo} |->
        IF r = repo
        THEN [count |-> 1, reviews |-> num_reviews, loc |-> loc]
        ELSE by_repo[r]]

\* lines 83-91: by_repo after one pull request of `repo`
ByRepoAfter(by_repo, repo, num_reviews, loc) ==
    LET had == repo \in DOMAIN by_repo
        old == IF had THEN by_repo[repo] ELSE [count |-> 0, reviews |-> 0, loc |-> 0] IN
    [r \in DOMAIN by_repo \cup {repo} |->
        IF r = repo
        THEN [count   |-> old.count + 1,
              reviews |-> old.reviews + num_reviews,
              loc     |-> old.loc + loc]
        ELSE by_repo[r]]

\* lines 59-91: the body of `for pr in data` for one record
StatsAfter(st, rec) ==
    LET repo == rec.repository
        num_reviews == Len(rec.human_reviews)
        inline == CountInline(rec.human_reviews)
        general == CountGeneral(rec.human_reviews)
        loc_added == rec.metadata.loc_added
        loc_deleted == rec.metadata.loc_deleted IN
    [st EXCEPT
        !.repos = @ \cup {repo},
        !.total_reviews = @ + num_reviews,
        !.review_counts = Append(@, num_reviews),
        !.inline_comments = @ + inline,
        !.general_reviews = @ + general,
        !.total_loc_added = @ + loc_added,
        !.total_loc_deleted = @ + loc_deleted,
        !.loc_counts = Append(@, loc_added + loc_deleted),
        !.by_repo = ByRepoAfter(@, repo, num_reviews, loc_added + loc_deleted)]

\* the outcome of a division by zero
DivisionError == [num |-> 0, den |-> 0]

\* lines 93-98 without the `if stats['total_prs'] > 0` guards
StatsFinalUnguarded(st) ==
    LET total_loc == st.total_loc_added + st.total_loc_deleted IN
    [total_prs          |-> st.total_prs,
     total_reviews      |-> st.total_reviews,
     inline_comments    |-> st.inline_comments,
     general_reviews    |-> st.general_reviews,
     total_loc_added    |-> st.total_loc_added,
     total_loc_deleted  |-> st.total_loc_deleted,
     repos              |-> st.repos,
     by_repo            |-> st.by_repo,
     review_counts      |-> st.review_counts,
     loc_counts         |-> st.loc_counts,
     num_repos          |-> Cardinality(st.repos),
     avg_reviews_per_pr |-> IF st.total_prs = 0 THEN DivisionError
                            ELSE Quotient(st.total_reviews, st.total_prs),
     total_loc          |-> total_loc,
     avg_loc_per_pr     |-> IF st.total_prs = 0 THEN DivisionError
                            ELSE Quotient(total_loc, st.total_prs)]

\* lines 93-98 with num_repos taken from the configured repositories
StatsFinalConfigured(st) ==
    LET total_loc == st.total_loc_added + st.total_loc_deleted IN
    [total_prs          |-> st.total_prs,
     total_reviews      |-> st.total_reviews,
     inline_comments    |-> st.inline_comments,
     general_reviews    |-> st.general_reviews,
     total_loc_added    |-> st.total_loc_added,
     total_loc_deleted  |-> st.total_loc_deleted,
     repos              |-> st.repos,
     by_repo            |-> st.by_repo,
     review_counts      |-> st.review_counts,
     loc_counts         |-> st.loc_counts,
     num_repos          |-> Len(repositories),
     avg_reviews_per_pr |-> IF st.total_prs > 0
                            THEN Quotient(st.total_reviews, st.total_prs)
                            ELSE Zero,
     total_loc          |-> total_loc,
     avg_loc_per_pr     |-> IF st.total_prs > 0
                            THEN Quotient(total_loc, st.total_prs)
                            ELSE Zero]

\* lines 93-98: the derived values
StatsFinal(st) ==
    LET total_loc == st.total_loc_added + st.total_loc_deleted IN
    [total_prs          |-> st.total_prs,
     total_reviews      |-> st.total_reviews,
     inline_comments    |-> st.inline_comments,
     general_reviews    |-> st.general_reviews,
     total_loc_added    |-> st.total_loc_added,
     total_loc_deleted  |-> st.total_loc_deleted,
     repos              |-> st.repos,
     by_repo            |-> st.by_repo,
     review_counts      |-> st.review_counts,
     loc_counts         |-> st.loc_counts,
     num_repos          |-> Cardinality(st.repos),
     avg_reviews_per_pr |-> IF st.total_prs > 0
                            THEN Quotient(st.total_reviews, st.total_prs)
                            ELSE Zero,
     total_loc          |-> total_loc,
     avg_loc_per_pr     |-> IF st.total_prs > 0
                            THEN Quotient(total_loc, st.total_prs)
                            ELSE Zero]

StatReviews == {<<>>, <<[type |-> "inline"]>>,
                <<[type |-> "inline"], [type |-> "general"]>>,
                <<[type |-> "general"], [type |-> "general"], [type |-> "inline"]>>}

StatRecords ==
    {[repository    |-> FullName(rc.owner, rc.repo),
      human_reviews |-> h,
      metadata      |-> [loc_added |-> la, loc_deleted |-> 20]] :
        rc \in {repositories[1], repositories[2]}, h \in StatReviews, la \in {0, 30}}

RECURSIVE SeqsUpTo(_, _)
SeqsUpTo(S, n) ==
    IF n = 0 THEN {<<>>}
    ELSE LET shorter == SeqsUpTo(S, n - 1) IN
         shorter \cup {Append(q, x) : q \in {t \in shorter : Len(t) = n - 1}, x \in S}

InitStats ==
    /\ pc = "generate_statistics"
    /\ data \in SeqsUpTo(StatRecords, MaxData)
    /\ stats = NoStats
    /\ stat_i = 0
    /\ load_status = "none"
    /\ outputs = {}
    /\ report = NoReport
    /\ repos_tried = 1
    /\ all_data = <<>>
    /\ max_prs = MaxPerRepo
    /\ pulls = NoListing
    /\ collected_prs = <<>>
    /\ processed = 0
    /\ skipped_reasons = [r \in Reasons |-> 0]
    /\ extractions = 0
    /\ sleeps = 0
    /\ returned = <<>>
    /\ scan_failed = FALSE
    /\ corpus_file = NoFile
    /\ console = "none"
    /\ pr = NoPr
    /\ verdict = NoVerdict
    /\ pr_data = None

\* lines 45-56
StatsBegin ==
    /\ pc = "generate_statistics"
    /\ stats' = NewStats(data)
    /\ stat_i' = 0
    /\ pc' = "stats_for"
    /\ UNCHANGED <<mainVars, scanVars, retVars, prVars, data, anaVars>>

\* lines 59-91: one iteration of `for pr in data`
StatsStep ==
    /\ pc = "stats_for"
    /\ stat_i < Len(data)
    /\ stats' = StatsAfter(stats, data[stat_i + 1])
    /\ stat_i' = stat_i + 1
    /\ UNCHANGED <<pc, mainVars, scanVars, retVars, prVars, data, anaVars>>

\* lines 93-104
StatsEnd ==
    /\ pc = "stats_for"
    /\ stat_i = Len(data)
    /\ stats' = StatsFinal(stats)
    /\ pc' = "stats_done"
    /\ UNCHANGED <<mainVars, scanVars, retVars, prVars, data, stat_i, anaVars>>

NextStats == StatsBegin \/ StatsStep \/ StatsEnd

SpecStats == InitStats /\ [][NextStats]_vars

----------------------------------------------------------------------------
(* Properties of collect_from_repo, is_suitable_pr and extract_pr_data *)

TotalChanges(p) == p.additions + p.deletions

\* C1: during the scan of one repository the number of pull requests
\* examined never exceeds 100 and the number accepted never exceeds max_prs
C1_ScanBudget ==
    pc \in {"for_pr", "returned"} =>
        /\ processed <= ExamineLimit
        /\ Len(collected_prs) <= max_prs

HasReviews(records) ==
    \A i \in 1..Len(records) :
        /\ records[i] # None
        /\ records[i].human_reviews # <<>>

\* C2: every record collected by a scan, returned by collect_from_repo,
\* accumulated by main or written to the corpus file has a non-empty
\* human_reviews list
C2_NoEmptyReviewList ==
    /\ HasReviews(collected_prs)
    /\ HasReviews(returned)
    /\ HasReviews(all_data)
    /\ HasReviews(corpus_file.content)

\* the corpus was written by a run in which the last scan saw candidates
\* whose extraction gave no review (one of them a null result)
C2_Witness ==
    /\ corpus_file.exists
    /\ corpus_file.content # <<>>
    /\ skipped_reasons["no_reviews"] >= 2
    /\ pr_data = None

InlineCount(reviews) == Len(SelectSeq(reviews, LAMBDA r : r.type = "inline"))

\* C3: no general review record whose trimmed body has length 10 or less is
\* in a record produced by extract_pr_data, whatever its state, while every
\* fetched inline comment is recorded whatever its length
C3_GeneralNeedsText ==
    (pc = "pr_done" /\ pr_data # None) =>
        /\ \A i \in 1..Len(pr_data.human_reviews) :
              LET r == pr_data.human_reviews[i] IN
              r.type = "general" => Len(Strip(r.content)) > MinBodyLen
        /\ (/\ ~pr.review_comments.raises
            /\ \A i \in 1..Len(pr.review_comments.items) : pr.review_comments.items[i].ok)
           => InlineCount(pr_data.human_reviews)
                  = Min(Len(pr.review_comments.items), MaxInline)

\* a record holding a short inline comment and a general review of 11
\* characters, from a pull request that also had a review of 10 padded ones
C3_Witness ==
    /\ pc = "pr_done"
    /\ pr_data # None
    /\ \E i \in 1..Len(pr_data.human_reviews) :
          /\ pr_data.human_reviews[i].type = "inline"
          /\ Len(pr_data.human_reviews[i].content) <= MinBodyLen
    /\ \E i \in 1..Len(pr_data.human_reviews) :
          /\ pr_data.human_reviews[i].type = "general"
          /\ Len(Strip(pr_data.human_reviews[i].content)) = MinBodyLen + 1
    /\ \E i \in 1..Len(pr.reviews.items) :
          /\ Len(pr.reviews.items[i].body.text) > MinBodyLen
          /\ Len(Strip(pr.reviews.items[i].body.text)) = MinBodyLen

\* C4: a pull request with merged == false is rejected as not_merged,
\* whatever its additions, deletions and creation date
C4_NotMergedFirst ==
    (pc \in {"extract_pr_data", "pr_done"} /\ pr.fault # "merged" /\ ~pr.merged)
        => verdict = <<FALSE, "not_merged">>

\* an unmerged pull request that is also too small and too old was rejected
C4_Witness ==
    /\ pc = "extract_pr_data"
    /\ ~pr.merged
    /\ pr.fault = "none"
    /\ TotalChanges(pr) < MinChanges
    /\ pr.created_at.wall < CutoffWall
    /\ verdict = <<FALSE, "not_merged">>

\* C5: a merged pull request with 10 <= additions + deletions <= 2000 created
\* at or after the cutoff (now - 1095 days) is accepted; a merged one below
\* 10 is too_small, above 2000 too_large, and one of accepted size created
\* before the cutoff too_old
C5_SizeAndAge ==
    (pc \in {"extract_pr_data", "pr_done"} /\ pr.fault = "none" /\ pr.merged) =>
        /\ (TotalChanges(pr) < MinChanges) => verdict = <<FALSE, "too_small">>
        /\ (TotalChanges(pr) > MaxChanges) => verdict = <<FALSE, "too_large">>
        /\ (TotalChanges(pr) \in MinChanges..MaxChanges) =>
              IF Now - pr.created_at.wall > MaxAgeDays * TicksPerDay
              THEN verdict = <<FALSE, "too_old">>
              ELSE verdict = <<TRUE, "suitable">>

\* a pull request of exactly 10 changed lines created exactly at the cutoff
\* was accepted
C5_Witness ==
    /\ pc = "extract_pr_data"
    /\ pr.merged
    /\ pr.fault = "none"
    /\ TotalChanges(pr) = MinChanges
    /\ Now - pr.created_at.wall = MaxAgeDays * TicksPerDay
    /\ verdict = <<TRUE, "suitable">>

----------------------------------------------------------------------------
(* Properties of main and of the error handling *)

\* C6: main takes the repositories one after the other in list order, each
\* scanned with a cap of 10, extends all_data by what the scan returned, and
\* starts a scan only while fewer than 35 records are accumulated
C6_SequentialScan ==
    [][/\ (repos_tried' # repos_tried) =>
              /\ repos_tried' = repos_tried + 1
              /\ Len(all_data) < EnoughPrs
              /\ max_prs' = MaxPerRepo
              /\ pc' = "get_repo"
       /\ (all_data' # all_data) =>
              /\ all_data' = all_data \o returned
              /\ \A i \in 1..Len(returned) :
                    returned[i].repository
                        = FullName(repositories[repos_tried].owner,
                                   repositories[repos_tried].repo)
       /\ (pc' \in {"get_repo", "for_pr", "returned"}) =>
              /\ Len(all_data') < EnoughPrs
              /\ max_prs' = MaxPerRepo]_vars

\* the run ended after four repositories with exactly 35 records
C6_Witness ==
    /\ pc = "done"
    /\ repos_tried = 4
    /\ Len(all_data) = EnoughPrs

\* C7: a scan that ran into an API error returns an empty list, main keeps
\* the records of the earlier repositories unchanged and goes on with the
\* repository loop
C7_FailedRepoSkipped ==
    [][(pc = "returned" /\ scan_failed) =>
           /\ returned = <<>>
           /\ all_data' = all_data
           /\ pc' = "main_for"]_vars

\* main is back at its loop after a scan that failed with records already
\* accepted, and still holds the records of an earlier repository
C7_Witness ==
    /\ pc = "main_for"
    /\ scan_failed
    /\ collected_prs # <<>>
    /\ all_data # <<>>
    /\ repos_tried < Len(repositories)

\* the comments the inline phase reads
InlineItems(p) == Take(p.review_comments.items, MaxInline)

InlineFailed(p) ==
    \/ p.review_comments.raises
    \/ \E i \in 1..Len(InlineItems(p)) : ~InlineItems(p)[i].ok

GeneralFailed(p) ==
    \/ p.reviews.raises
    \/ \E i \in 1..Len(p.reviews.items) :
          HasText(p.reviews.items[i]) /\ ~p.reviews.items[i].ok

\* index of the first item of a phase whose conversion raises
FirstFailure(items, Raises(_)) ==
    IF \E i \in 1..Len(items) : Raises(items[i])
    THEN CHOOSE i \in 1..Len(items) :
             /\ Raises(items[i])
             /\ \A j \in 1..(i - 1) : ~Raises(items[j])
    ELSE Len(items) + 1

InlineKept(p) ==
    IF p.review_comments.raises THEN <<>>
    ELSE LET k == FirstFailure(InlineItems(p), LAMBDA c : ~c.ok) IN
         [i \in 1..(k - 1) |-> InlineRecord(InlineItems(p)[i])]

GeneralKept(p) ==
    IF p.reviews.raises THEN <<>>
    ELSE LET k == FirstFailure(p.reviews.items, LAMBDA r : HasText(r) /\ ~r.ok)
             texts == SelectSeq(SubSeq(p.reviews.items, 1, k - 1), HasText) IN
         [i \in 1..Len(texts) |-> GeneralRecord(texts[i])]

GeneralCount(reviews) == Len(SelectSeq(reviews, LAMBDA r : r.type = "general"))

\* C8 as stated: a failure anywhere in a phase leaves zero records of that
\* phase in the record, the other phase's records are unaffected and the
\* record is returned
C8_FailedPhaseEmpty ==
    (pc = "pr_done" /\ pr.fault = "none") =>
        /\ pr_data # None
        /\ InlineFailed(pr) => InlineCount(pr_data.human_reviews) = 0
        /\ GeneralFailed(pr) => GeneralCount(pr_data.human_reviews) = 0
        /\ ~InlineFailed(pr) =>
              SelectSeq(pr_data.human_reviews, LAMBDA r : r.type = "inline")
                  = InlineKept(pr)
        /\ ~GeneralFailed(pr) =>
              SelectSeq(pr_data.human_reviews, LAMBDA r : r.type = "general")
                  = GeneralKept(pr)

\* C8 amended: a failure in a phase is swallowed and the record is returned;
\* a phase whose fetch fails leaves no record, a phase that fails on an item
\* leaves the records appended before that item, and the records of the
\* other phase are what they are without the failure
C8_FailedPhaseKeepsPrefix ==
    (pc = "pr_done" /\ pr.fault = "none") =>
        /\ pr_data # None
        /\ pr_data.human_reviews = InlineKept(pr) \o GeneralKept(pr)
        /\ pr.review_comments.raises => InlineCount(pr_data.human_reviews) = 0
        /\ pr.reviews.raises => GeneralCount(pr_data.human_reviews) = 0

\* the inline phase failed on its second comment and the general phase on
\* its second review: the record holds one record of each
C8_Witness ==
    /\ pc = "pr_done"
    /\ pr_data # None
    /\ ~pr.review_comments.raises /\ InlineFailed(pr)
    /\ ~pr.reviews.raises /\ GeneralFailed(pr)
    /\ InlineCount(pr_data.human_reviews) = 1
    /\ GeneralCount(pr_data.human_reviews) = 1

\* the two ways a run may end
SuccessOutcome ==
    /\ all_data # <<>>
    /\ corpus_file = [exists |-> TRUE, content |-> all_data]
    /\ console = "success"

NoDataOutcome ==
    /\ all_data = <<>>
    /\ ~corpus_file.exists
    /\ console = "no_data"

----------------------------------------------------------------------------
(* Properties of generate_statistics *)

RECURSIVE SumLens(_)
SumLens(records) ==
    IF records = <<>> THEN 0
    ELSE Len(Head(records).human_reviews) + SumLens(Tail(records))

\* the sum of f[k] over the keys
RECURSIVE SumOver(_, _)
SumOver(f, keys) ==
    IF keys = {} THEN 0
    ELSE LET k == CHOOSE x \in keys : TRUE IN
         f[k] + SumOver(f, keys \ {k})

Repos == DOMAIN stats.by_repo

\* C10: total_prs is the number of records, total_reviews the sum of their
\* review-list lengths, inline_comments + general_reviews = total_reviews,
\* and the by_repo counts, review counts and LOC sum to the totals
C10_StatsPartition ==
    (pc = "stats_done") =>
        /\ stats.total_prs = Len(data)
        /\ stats.total_reviews = SumLens(data)
        /\ stats.inline_comments + stats.general_reviews = stats.total_reviews
        /\ SumOver([r \in Repos |-> stats.by_repo[r].count], Repos)
               = stats.total_prs
        /\ SumOver([r \in Repos |-> stats.by_repo[r].reviews], Repos)
               = stats.total_reviews
        /\ SumOver([r \in Repos |-> stats.by_repo[r].loc], Repos)
               = stats.total_loc_added + stats.total_loc_deleted

\* statistics of three records of two repositories, with reviews of both
\* types
C10_Witness ==
    /\ pc = "stats_done"
    /\ Len(data) = 3
    /\ Cardinality(DOMAIN stats.by_repo) = 2
    /\ stats.inline_comments > 0
    /\ stats.general_reviews > 0
    /\ stats.total_loc_added > 0

----------------------------------------------------------------------------
(* analyze_data.py: load_data, main and the four renderers *)

\* length of the longest corpus the analyzer is given
MaxCorpus == 4

\* sorted(sample)
RECURSIVE Insert(_, _)
Insert(x, sorted) ==
    IF sorted = <<>> THEN <<x>>
    ELSE IF x <= Head(sorted) THEN <<x>> \o sorted
    ELSE <<Head(sorted)>> \o Insert(x, Tail(sorted))

RECURSIVE Sorted(_)
Sorted(sample) ==
    IF sample = <<>> THEN <<>>
    ELSE Insert(Head(sample), Sorted(Tail(sample)))

\* sorted(sample)[(len(sample) - 1) // 2]
MedianLowerIndex(sample) == Sorted(sample)[((Len(sample) - 1) \div 2) + 1]

\* lines 277 and 287: sorted(sample)[len(sample) // 2], the index counted from 0
Median(sample) == Sorted(sample)[(Len(sample) \div 2) + 1]

\* min(sample), max(sample)
Minimum(sample) == Sorted(sample)[1]
Maximum(sample) == Sorted(sample)[Len(sample)]

Charts == {"figures/prs_per_repo.png", "figures/comments_distribution.png",
           "figures/loc_distribution.png", "figures/review_types.png"}

AllOutputs == Charts \cup {"data/summary_report.txt", "data/latex_table.tex",
                           "data/paper_text.txt"}

\* lines 19-36: load_data; parses is whether json.load accepts the content
LoadData ==
    /\ pc = "load_data"
    /\ IF ~corpus_file.exists
       THEN load_status' = "not_found" /\ data' = <<>>
       ELSE \E parses \in BOOLEAN :
               IF parses
               THEN load_status' = "loaded" /\ data' = corpus_file.content
               ELSE load_status' = "error" /\ data' = <<>>
    /\ pc' = "loaded"
    /\ UNCHANGED <<mainVars, scanVars, retVars, prVars, stats, stat_i,
                   outputs, report>>

\* `not data` with only the missing file taken for no data
NotDataMissingOnly == load_status = "not_found"

\* line 436: `not data`, true of None and of the empty list
NotData == load_status # "loaded" \/ data = <<>>

\* lines 436-437: main returns
ReturnNoData ==
    /\ pc = "loaded"
    /\ NotData
    /\ pc' = "analysis_returned"
    /\ UNCHANGED <<mainVars, scanVars, retVars, prVars, statVars>>

\* line 440: main calls generate_statistics
CallStatistics ==
    /\ pc = "loaded"
    /\ ~NotData
    /\ pc' = "generate_statistics"
    /\ UNCHANGED <<mainVars, scanVars, retVars, prVars, statVars>>

\* lines 107-240: create_visualizations writes the four charts
CreateVisualizations ==
    /\ pc = "stats_done"
    /\ outputs' = outputs \cup Charts
    /\ pc' = "create_text_report"
    /\ UNCHANGED <<mainVars, scanVars, retVars, prVars, data, stats, stat_i,
                   load_status, report>>

\* line 263: the percentage of inline comments divides by total_reviews
ReportDivisionError ==
    /\ pc = "create_text_report"
    /\ stats.total_reviews = 0
    /\ pc' = "crashed"
    /\ UNCHANGED <<mainVars, scanVars, retVars, prVars, statVars>>

\* lines 243-322: create_text_report (the standard deviations are left out)
CreateTextReport ==
    /\ pc = "create_text_report"
    /\ stats.total_reviews # 0
    /\ report' = [written        |-> TRUE,
                  min_reviews    |-> Minimum(stats.review_counts),
                  max_reviews    |-> Maximum(stats.review_counts),
                  median_reviews |-> Median(stats.review_counts),
                  min_loc        |-> Minimum(stats.loc_counts),
                  max_loc        |-> Maximum(stats.loc_counts),
                  median_loc     |-> Median(stats.loc_counts)]
    /\ outputs' = outputs \cup {"data/summary_report.txt"}
    /\ pc' = "create_latex_table"
    /\ UNCHANGED <<mainVars, scanVars, retVars, prVars, data, stats, stat_i,
                   load_status>>

\* lines 325-373: create_latex_table
CreateLatexTable ==
    /\ pc = "create_latex_table"
    /\ outputs' = outputs \cup {"data/latex_table.tex"}
    /\ pc' = "create_paper_text"
    /\ UNCHANGED <<mainVars, scanVars, retVars, prVars, data, stats, stat_i,
                   load_status, report>>

\* lines 376-430: create_paper_text, then the final summary of main
CreatePaperText ==
    /\ pc = "create_paper_text"
    /\ outputs' = outputs \cup {"data/paper_text.txt"}
    /\ pc' = "analysis_complete"
    /\ UNCHANGED <<mainVars, scanVars, retVars, prVars, data, stats, stat_i,
                   load_status, report>>

\* total LOC of a corpus record with n reviews
LocOf(n) == CASE n = 1 -> 20 [] n = 2 -> 50 [] n = 5 -> 300 [] OTHER -> 100

\* a collected PR record with n reviews, inline and general in turn
CorpusRecord(rc, n) ==
    [repository    |-> FullName(rc.owner, rc.repo),
     human_reviews |-> [i \in 1..n |->
                          [type |-> IF i % 2 = 1 THEN "inline" ELSE "general"]],
     metadata      |-> [loc_added |-> LocOf(n) - 10, loc_deleted |-> 10]]

CorpusRecords ==
    {CorpusRecord(repositories[1], n) : n \in 0..5}
    \cup {CorpusRecord(repositories[2], 1)}

InitAnalyze ==
    /\ pc = "load_data"
    /\ corpus_file \in {NoFile} \cup
           {[exists |-> TRUE, content |-> c] : c \in SeqsUpTo(CorpusRecords, MaxCorpus)}
    /\ data = <<>>
    /\ stats = NoStats
    /\ stat_i = 0
    /\ load_status = "none"
    /\ outputs = {}
    /\ report = NoReport
    /\ repos_tried = 1
    /\ all_data = <<>>
    /\ max_prs = MaxPerRepo
    /\ pulls = NoListing
    /\ collected_prs = <<>>
    /\ processed = 0
    /\ skipped_reasons = [r \in Reasons |-> 0]
    /\ extractions = 0
    /\ sleeps = 0
    /\ returned = <<>>
    /\ scan_failed = FALSE
    /\ console = "none"
    /\ pr = NoPr
    /\ verdict = NoVerdict
    /\ pr_data = None

NextAnalyze ==
    \/ LoadData
    \/ ReturnNoData
    \/ CallStatistics
    \/ StatsBegin
    \/ StatsStep
    \/ StatsEnd
    \/ CreateVisualizations
    \/ ReportDivisionError
    \/ CreateTextReport
    \/ CreateLatexTable
    \/ CreatePaperText

SpecAnalyze == InitAnalyze /\ [][NextAnalyze]_vars

----------------------------------------------------------------------------
(* Properties of the analyzer *)

Below(sample, m) == Cardinality({i \in 1..Len(sample) : sample[i] < m})
UpToValue(sample, m) == Cardinality({i \in 1..Len(sample) : sample[i] <= m})
IsElement(sample, m) == \E i \in 1..Len(sample) : sample[i] = m

\* C11 as stated: for a sample of even length the reported median is the
\* lower of the two middle elements of the sorted sample; for [1, 2, 3, 4]
\* it is 2
C11_LowerMiddle ==
    (report.written /\ Len(stats.review_counts) % 2 = 0) =>
        LET n == Len(stats.review_counts)
            m == report.median_reviews IN
        /\ IsElement(stats.review_counts, m)
        /\ Below(stats.review_counts, m) < n \div 2
        /\ UpToValue(stats.review_counts, m) >= n \div 2
        /\ (stats.review_counts = <<1, 2, 3, 4>>) => m = 2

\* C11 amended: for a sample of even length the reported median is the
\* upper of the two middle elements of the sorted sample, an element of the
\* sample and not an interpolation; for [1, 2, 3, 4] it is 3
C11_UpperMiddle ==
    (report.written /\ Len(stats.review_counts) % 2 = 0) =>
        LET n == Len(stats.review_counts)
            m == report.median_reviews IN
        /\ IsElement(stats.review_counts, m)
        /\ Below(stats.review_counts, m) <= n \div 2
        /\ UpToValue(stats.review_counts, m) > n \div 2
        /\ (stats.review_counts = <<1, 2, 3, 4>>) => m = 3

\* the report of the review-count sample [1, 2, 3, 4]
C11_Witness ==
    /\ report.written
    /\ stats.review_counts = <<1, 2, 3, 4>>
    /\ report.median_reviews = 3

\* C12: the averages of generate_statistics are always defined:
\* avg_reviews_per_pr is 0 when total_reviews = 0, both averages are 0 when
\* there is no PR, and otherwise they are the quotients by total_prs
C12_AveragesDefined ==
    (pc = "stats_done") =>
        /\ stats.avg_reviews_per_pr.den > 0
        /\ stats.avg_loc_per_pr.den > 0
        /\ (stats.total_reviews = 0) => stats.avg_reviews_per_pr = Zero
        /\ (stats.total_prs = 0) =>
              (stats.avg_reviews_per_pr = Zero /\ stats.avg_loc_per_pr = Zero)
        /\ stats.avg_reviews_per_pr.num * stats.total_prs
              = stats.total_reviews * stats.avg_reviews_per_pr.den
        /\ stats.avg_loc_per_pr.num * stats.total_prs
              = stats.total_loc * stats.avg_loc_per_pr.den

\* statistics of records that hold no review at all
C12_Witness ==
    /\ pc = "stats_done"
    /\ stats.total_prs > 0
    /\ stats.total_reviews = 0
    /\ stats.avg_reviews_per_pr = Zero
    /\ stats.avg_loc_per_pr # Zero

\* C13: when the corpus file is missing or its content does not parse,
\* load_data reports it, main returns, and none of the seven output files is
\* ever written
C13_NoPartialOutput ==
    /\ (pc # "load_data" /\ ~corpus_file.exists) => load_status = "not_found"
    /\ (load_status \in {"not_found", "error"}) =>
          /\ outputs \cap AllOutputs = {}
          /\ report = NoReport
          /\ pc \in {"loaded", "analysis_returned"}

\* main has returned on a corpus file whose content did not parse
C13_Witness ==
    /\ pc = "analysis_returned"
    /\ load_status = "error"
    /\ corpus_file.exists
    /\ corpus_file.content # <<>>
    /\ outputs = {}

StatsComputed ==
    pc \in {"stats_done", "create_text_report", "create_latex_table",
            "create_paper_text", "analysis_complete", "crashed"}

Occurring == {data[i].repository : i \in 1..Len(data)}

\* C14: by_repo and repos hold exactly the repositories that occur in the
\* records, each by_repo count is the number (at least 1) of its records,
\* and num_repos is their number; three records of one repository with
\* review counts [2, 5, 1] give total_prs = 3, num_repos = 1 and
\* avg_reviews_per_pr = 8/3
C14_ReposThatOccur ==
    StatsComputed =>
        /\ DOMAIN stats.by_repo = Occurring
        /\ stats.repos = Occurring
        /\ stats.num_repos = Cardinality(Occurring)
        /\ \A r \in DOMAIN stats.by_repo :
              /\ stats.by_repo[r].count >= 1
              /\ stats.by_repo[r].count
                     = Cardinality({i \in 1..Len(data) : data[i].repository = r})
        /\ (stats.review_counts = <<2, 5, 1>> /\ Cardinality(Occurring) = 1) =>
              /\ stats.total_prs = 3
              /\ stats.num_repos = 1
              /\ stats.avg_reviews_per_pr = [num |-> 8, den |-> 3]

\* the statistics of three records of one of the configured repositories,
\* with review counts [2, 5, 1] and LOC [50, 300, 20]
C14_Witness ==
    /\ pc = "stats_done"
    /\ stats.review_counts = <<2, 5, 1>>
    /\ stats.loc_counts = <<50, 300, 20>>
    /\ stats.repos = {FullName(repositories[1].owner, repositories[1].repo)}
    /\ stats.num_repos = 1
    /\ stats.num_repos < Len(repositories)

FilterTallies ==
    skipped_reasons["not_merged"] + skipped_reasons["too_small"]
        + skipped_reasons["too_large"] + skipped_reasons["too_old"]
        + skipped_reasons["error"]

\* C15: a step of the scan that examines a candidate calls extract_pr_data
\* once and sleeps once when the filter passed the candidate, accepted or
\* not, and neither extracts nor sleeps when the filter rejected it; no other
\* step of the scan extracts or sleeps
C15_ExtractAndSleepOncePerSuitable ==
    [][IF processed' = processed + 1
       THEN IF verdict'[1]
            THEN /\ extractions' = extractions + 1
                 /\ sleeps' = sleeps + 1
            ELSE /\ extractions' = extractions
                 /\ sleeps' = sleeps
       ELSE pc # "get_repo" =>
                /\ extractions' = extractions
                /\ sleeps' = sleeps]_vars

\* a scan that has met a filter-rejected candidate, an accepted one and a
\* suitable one that was not accepted
C15_Witness ==
    /\ pc = "for_pr"
    /\ FilterTallies > 0
    /\ Len(collected_prs) > 0
    /\ skipped_reasons["no_reviews"] > 0
    /\ extractions = Len(collected_prs) + skipped_reasons["no_reviews"]
    /\ sleeps = extractions
    /\ processed = extractions + FilterTallies

\* the strictly increasing maps from 1..k into 1..n
Increasing(k, n) ==
    {f \in [1..k -> 1..n] : \A i \in 1..k, j \in 1..k : i < j => f[i] < f[j]}

\* C16: in a record returned by extract_pr_data the inline records precede
\* the general records; the i-th inline record is made from the i-th fetched
\* comment and there are at most 30 of them; the general records are made
\* from fetched reviews in the order of the fetch; an inline record has the
\* keys file and line_number, a general record has the key state; and
\* metadata.num_review_comments is the length of human_reviews
C16_ReviewListShape ==
    (pc = "pr_done" /\ pr_data # None) =>
        LET hr == pr_data.human_reviews
            k  == InlineCount(hr)
            g  == Len(hr) - k
            fetched == pr.reviews.items IN
        /\ \A i \in 1..Len(hr) :
              hr[i].type = IF i <= k THEN "inline" ELSE "general"
        /\ k <= MaxInline
        /\ k <= Len(pr.review_comments.items)
        /\ \A i \in 1..k : hr[i] = InlineRecord(pr.review_comments.items[i])
        /\ \E f \in Increasing(g, Len(fetched)) :
              \A j \in 1..g : hr[k + j] = GeneralRecord(fetched[f[j]])
        /\ \A i \in 1..Len(hr) :
              IF hr[i].type = "inline"
              THEN {"file", "line_number"} \subseteq DOMAIN hr[i]
              ELSE "state" \in DOMAIN hr[i]
        /\ pr_data.metadata.num_review_comments = Len(hr)

\* 31 comments and two reviews with text were fetched: the record holds 30
\* inline records followed by the two general records in fetch order
C16_Witness ==
    /\ pc = "pr_done"
    /\ pr_data # None
    /\ Len(pr.review_comments.items) = MaxInline + 1
    /\ Len(pr_data.human_reviews) = MaxInline + 2
    /\ pr_data.human_reviews[MaxInline].type = "inline"
    /\ pr_data.human_reviews[MaxInline + 1].type = "general"
    /\ pr_data.human_reviews[MaxInline + 1].state = "APPROVED"
    /\ pr_data.human_reviews[MaxInline + 2].state = "CHANGES_REQUESTED"
    /\ pr_data.metadata.num_review_comments = MaxInline + 2

Outcomes == Reasons \cup {"accepted"}

\* how many pull requests of the scan ended in each outcome
Tally ==
    [o \in Outcomes |->
        IF o = "accepted" THEN Len(collected_prs) ELSE skipped_reasons[o]]

RECURSIVE SumTally(_, _)
SumTally(t, outcomes) ==
    IF outcomes = {} THEN 0
    ELSE LET o == CHOOSE x \in outcomes : TRUE IN
         t[o] + SumTally(t, outcomes \ {o})

\* the outcome of a pull request none of whose attributes read by the filter
\* raises, given the record d its extraction returns
OutcomeOf(p, d) ==
    IF ~p.merged THEN "not_merged"
    ELSE IF TotalChanges(p) < MinChanges THEN "too_small"
    ELSE IF TotalChanges(p) > MaxChanges THEN "too_large"
    ELSE IF Now - p.created_at.wall > MaxAgeDays * TicksPerDay THEN "too_old"
    ELSE IF d = None THEN "no_reviews"
    ELSE IF d.human_reviews = <<>> THEN "no_reviews"
    ELSE "accepted"

\* C17: the pull requests examined are as many as the accepted ones plus the
\* six tallies; an iteration that examines a pull request adds one to exactly
\* one of them: for a filter rejection the reason of the first failing check
\* in the order merged, size, age, for a suitable candidate whose record is
\* None or has no reviews no_reviews, and otherwise the accepted records
C17_EveryExaminedPrTallied ==
    /\ [](processed = SumTally(Tally, Outcomes))
    /\ [][processed' = processed + 1 =>
            \E o \in Outcomes :
                /\ Tally' = [Tally EXCEPT ![o] = @ + 1]
                /\ pr'.fault \in {"none", "header"} => o = OutcomeOf(pr', pr_data')
                /\ pr'.fault \notin {"none", "header"} => o = "error"]_vars

\* a scan that has examined pull requests of every outcome, among them an
\* unmerged one that is also too small and too old, a merged one that is too
\* small and too old, one whose record is None and one without reviews
C17_Witness ==
    /\ pc = "for_pr"
    /\ pr = [PrSmallOld EXCEPT !.number = Len(MixedPulls)]
    /\ skipped_reasons = [not_merged |-> 2, too_small |-> 2, too_large |-> 1,
                          too_old |-> 1, no_reviews |-> 2, error |-> 1]
    /\ Len(collected_prs) = 2
    /\ processed = Len(MixedPulls)

====
